---- MODULE Spec2Model ----
(***************************************************************************)
(* Gate check-in ledger of GHBC_internal_app: the AsyncStorage entries     *)
(* (@member_data, @last_download_date, @todays_checkins, @todays_alerts),  *)
(* the check-in service (CheckInStorageService.handleGuestCheckIn), the    *)
(* guest validation engine (GuestValidationService), the alert log         *)
(* (AlertStorageService) and the HomeScreen download / upload handlers.    *)
(*                                                                         *)
(* In Spec every service call and every screen handler runs to completion  *)
(* before the next one starts, and AsyncStorage reads and writes succeed.  *)
(*                                                                         *)
(* Encoding.  A string is a sequence of one-character strings, so that     *)
(* toLowerCase and trim are computed character by character.  An optional  *)
(* value (a missing storage item, an undefined field, null) is the empty   *)
(* sequence <<>>, a present one is the one-element sequence <<v>>.         *)
(***************************************************************************)
EXTENDS Integers, Sequences, FiniteSets, TLC

VARIABLES
  member_data,         \* AsyncStorage item @member_data: <<>> or <<MemberData>>
  last_download_date,  \* AsyncStorage item @last_download_date: <<>> or <<date>>
  todays_checkins,     \* AsyncStorage item @todays_checkins: <<>> or <<CheckIn list>>
  todays_alerts,       \* AsyncStorage item @todays_alerts: <<>> or <<AlertUpload list>>
  hasDownloadedData,   \* HomeScreen React state
  isDataDownloadedToday, \* HomeScreen React state
  now,                 \* the device's calendar date (new Date())
  result,              \* what the last completed operation returned / reported
  phase,               \* progress of the round-trip scenario (SpecRoundTrip only)
  inflight,            \* check-in service calls between their ledger read and
                       \* their ledger write (SpecInterleaved only)
  screen               \* the screen on top of the navigation stack

vars == <<member_data, last_download_date, todays_checkins, todays_alerts,
          hasDownloadedData, isDataDownloadedToday, now, result, phase,
          inflight, screen>>

-----------------------------------------------------------------------------
(* Bounds of the model *)

\* longest guest list a caller proposes, apart from the over-cap list
MaxProposalLen == 2

\* the alert log is explored up to this many records
MaxAlerts == 2

-----------------------------------------------------------------------------
(* Strings *)

Str_Sam == <<"S", "a", "m">>
Str_sam == <<"s", "a", "m">>
Str_SAM == <<"S", "A", "M">>
Str_Blank == <<" ">>
Str_Ann == <<"A", "n", "n">>
Str_Member == <<"M", "e", "m", "b", "e", "r">>

\* String.prototype.toLowerCase on one character
LowerChar(c) ==
  CASE c = "S" -> "s"
    [] c = "A" -> "a"
    [] c = "M" -> "m"
    [] OTHER -> c

toLowerCase(s) == [i \in 1..Len(s) |-> LowerChar(s[i])]

RECURSIVE trimStart(_)
trimStart(s) ==
  IF s # <<>> /\ Head(s) = " " THEN trimStart(Tail(s)) ELSE s

RECURSIVE trimEnd(_)
trimEnd(s) ==
  IF s # <<>> /\ s[Len(s)] = " " THEN trimEnd(SubSeq(s, 1, Len(s) - 1)) ELSE s

\* String.prototype.trim
trim(s) == trimEnd(trimStart(s))

-----------------------------------------------------------------------------
(* Dates and seasons *)

Date(y, m, d) == [year |-> y, month |-> m, day |-> d]

\* Utils.getCurrentSeason, on the device date
getCurrentSeason(today) ==
  IF today.month >= 6 /\ today.month <= 9
    THEN <<"S", today.year>>
    ELSE <<"W", today.year>>

\* Utils.getSeasonFromDate, on a visit date
getSeasonFromDate(date) ==
  IF date.month >= 6 /\ date.month <= 9
    THEN <<"S", date.year>>
    ELSE <<"W", date.year>>

\* the dates the device clock is started at
Todays == {Date(2025, 7, 4), Date(2025, 10, 1)}

-----------------------------------------------------------------------------
(* Sequence helpers standing for Array.prototype methods *)

\* guests.filter(guest => guest.name.trim() !== ''): the guests with a name,
\* in their order
filterNamed(guests) ==
  LET idx == {i \in 1..Len(guests) : trim(guests[i].name) # <<>>}
      kth(k) == CHOOSE i \in idx : Cardinality({j \in idx : j <= i}) = k
  IN  [k \in 1..Cardinality(idx) |-> guests[kth(k)]]

\* findIndex / find by profile_id: the first position with that profile_id,
\* 0 standing for -1 (or undefined)
findIndex(s, profileId) ==
  IF \E i \in 1..Len(s) : s[i].profile_id = profileId
    THEN CHOOSE i \in 1..Len(s) :
           /\ s[i].profile_id = profileId
           /\ \A j \in 1..(i - 1) : s[j].profile_id # profileId
    ELSE 0

\* Array.prototype.includes
includes(s, x) == \E i \in 1..Len(s) : s[i] = x

\* the forEach of getGuestVisitCount over a record's guests: how many carry
\* that name, case aside
countGuestsNamed(guests, guestName) ==
  Cardinality({i \in 1..Len(guests) :
                 toLowerCase(guests[i].name) = toLowerCase(guestName)})

\* the forEach of getGuestVisitCount over the member's guest_visits: how many
\* are of that season and that name, case aside
countVisits(visits, guestName, currentSeason) ==
  Cardinality({i \in 1..Len(visits) :
                 /\ getSeasonFromDate(visits[i].visit_date) = currentSeason
                 /\ toLowerCase(visits[i].guest_name) = toLowerCase(guestName)})

\* all sequences over S of length at most n
SeqsUpTo(S, n) == UNION {[1..k -> S] : k \in 0..n}

\* n copies of x
Repeat(x, n) == [i \in 1..n |-> x]

-----------------------------------------------------------------------------
(* Program constants *)

\* GuestValidationService.validateGuestCount: at most 5 guests per member per day
MaxGuestsPerDay == 5

\* GuestValidationService.validateGuestVisitLimit: the visit count compared against
VisitLimit == 3

-----------------------------------------------------------------------------
(* Data: types.ts *)

\* types.GuestVisit (the fields the engine reads)
GuestVisit(name, date) == [guest_name |-> name, visit_date |-> date]

\* types.Member (the fields the engine reads); name is <<>> for null
Member(id, name, visits) == [profile_id |-> id, name |-> name, guest_visits |-> visits]

\* a proposed guest as CheckInScreen.handleGuestSubmission builds it
Guest(name) == [name |-> name, notes |-> <<[text |-> "Added via check-in", visit |-> 0]>>]

\* types.ApiResponse.data downloaded by Api.Download: two directory snapshots.
\* SnapA: member 1 (Ann) has exactly three visits by Sam in summer 2025, one of
\*        them written in lower case, and visits by Sam in other seasons;
\*        member 2 (no name) has four visits by Sam in summer 2025, one written SAM.
\* SnapB: member 1 has four visits by Sam in summer 2025 and one the summer
\*        before; member 2 is not in the directory.
SnapA ==
  [members |-> <<
     Member(1, <<Str_Ann>>,
            << GuestVisit(Str_Sam, Date(2025, 6, 1)),
               GuestVisit(Str_sam, Date(2025, 7, 1)),
               GuestVisit(Str_Sam, Date(2025, 9, 30)),
               GuestVisit(Str_Sam, Date(2024, 7, 1)),
               GuestVisit(Str_Sam, Date(2025, 5, 31)),
               GuestVisit(Str_Sam, Date(2025, 10, 1)) >>),
     Member(2, <<>>,
            << GuestVisit(Str_Sam, Date(2025, 6, 2)),
               GuestVisit(Str_SAM, Date(2025, 6, 9)),
               GuestVisit(Str_Sam, Date(2025, 7, 2)),
               GuestVisit(Str_Sam, Date(2025, 8, 2)) >>) >>]

SnapB ==
  [members |-> <<
     Member(1, <<Str_Ann>>,
            << GuestVisit(Str_Sam, Date(2025, 6, 1)),
               GuestVisit(Str_Sam, Date(2025, 6, 8)),
               GuestVisit(Str_Sam, Date(2025, 7, 1)),
               GuestVisit(Str_Sam, Date(2025, 8, 1)),
               GuestVisit(Str_Sam, Date(2024, 8, 1)) >>) >>]

Snapshots == {SnapA, SnapB}

\* the Member objects CheckInScreen passes to addCheckIn
MemberObjs == {Member(1, <<Str_Ann>>, <<>>), Member(2, <<>>, <<>>)}

ProfileIds == {m.profile_id : m \in MemberObjs}

\* the guest names typed for a member: the gate types member 1's guest as Sam
\* and member 2's as sam, and a name field may be left blank
GuestNames(profileId) ==
  IF profileId = 1 THEN {Str_Sam, Str_Blank} ELSE {Str_sam, Str_Blank}

\* the name typed for a member's guest
TypedName(profileId) == IF profileId = 1 THEN Str_Sam ELSE Str_sam

\* the guest lists proposed for a member: every short list, and one list that
\* alone is over the daily cap
GuestLists(profileId) ==
  SeqsUpTo({Guest(n) : n \in GuestNames(profileId)}, MaxProposalLen)
    \cup {Repeat(Guest(TypedName(profileId)), MaxGuestsPerDay + 1)}

-----------------------------------------------------------------------------
(* Member directory: MemberStorageService *)

\* MemberStorageService.getAllMembers: memberData?.members || []
getAllMembers(memberItem) ==
  IF memberItem = <<>> THEN <<>> ELSE memberItem[1].members

\* MemberStorageService.getMemberName: member?.name || 'Member'
getMemberName(profileId, memberItem) ==
  LET members == getAllMembers(memberItem)
      i == findIndex(members, profileId)
  IN  IF i = 0 \/ members[i].name = <<>> THEN Str_Member ELSE members[i].name[1]

-----------------------------------------------------------------------------
(* Alert log: AlertStorageService *)

\* AlertStorageService.getTodaysAlerts: the stored list, [] when the item is missing
getTodaysAlerts(alertsItem) ==
  IF alertsItem = <<>> THEN <<>> ELSE alertsItem[1]

\* the text of a GuestLimit alert: `This is visit #${n} (exceeds 3-visit limit)`
VisitMessage(n) == [text |-> "This is visit # (exceeds 3-visit limit)", visit |-> n]

\* a variant of createAlert that puts the new alert in front of the others
createAlert_unshift(alertsItem, profileId, guestName, type, message, today) ==
  LET newAlert == [ profile_id    |-> profileId,
                    guest_name    |-> guestName,
                    visit_date    |-> today,
                    season        |-> getCurrentSeason(today),
                    type          |-> type,
                    alert_message |-> message ]
  IN  << <<newAlert>> \o getTodaysAlerts(alertsItem) >>

\* AlertStorageService.createAlert: the item after the new alert is pushed and stored
createAlert(alertsItem, profileId, guestName, type, message, today) ==
  LET newAlert == [ profile_id    |-> profileId,
                    guest_name    |-> guestName,
                    visit_date    |-> today,
                    season        |-> getCurrentSeason(today),
                    type          |-> type,
                    alert_message |-> message ]
  IN  << Append(getTodaysAlerts(alertsItem), newAlert) >>

\* a variant of clearTodaysAlerts that leaves the item as it is
clearTodaysAlerts_keep(alertsItem) == alertsItem

\* AlertStorageService.clearTodaysAlerts: setItem(TODAYS_ALERTS_KEY, '[]')
clearTodaysAlerts(alertsItem) == << <<>> >>

-----------------------------------------------------------------------------
(* Guest validation engine: GuestValidationService *)

RECURSIVE countTodays(_, _, _)
\* the second loop of getGuestVisitCount: the member's guests of that name in
\* the check-ins handed in
countTodays(todaysCheckIns, profileId, guestName) ==
  IF todaysCheckIns = <<>> THEN 0
  ELSE (IF Head(todaysCheckIns).profile_id = profileId
          THEN countGuestsNamed(Head(todaysCheckIns).guests, guestName)
          ELSE 0)
       + countTodays(Tail(todaysCheckIns), profileId, guestName)

\* a variant of getGuestVisitCount that counts the guest over every member's
\* visits and every record of the day
getGuestVisitCount_global(guestName, todaysCheckIns, profileId, memberItem, today) ==
  LET members == getAllMembers(memberItem)
      perMember == [m \in 1..Len(members) |->
                      countVisits(members[m].guest_visits, guestName, getCurrentSeason(today))]
      perRecord == [c \in 1..Len(todaysCheckIns) |->
                      countGuestsNamed(todaysCheckIns[c].guests, guestName)]
      sum[k \in 0..Len(members)] == IF k = 0 THEN 0 ELSE sum[k - 1] + perMember[k]
      tot[k \in 0..Len(todaysCheckIns)] == IF k = 0 THEN 0 ELSE tot[k - 1] + perRecord[k]
  IN  sum[Len(members)] + tot[Len(todaysCheckIns)]

\* a variant of getGuestVisitCount that counts today's guests also for a
\* member the directory does not hold
getGuestVisitCount_countAbsent(guestName, todaysCheckIns, profileId, memberItem, today) ==
  LET members == getAllMembers(memberItem)
      currentSeason == getCurrentSeason(today)
      i == findIndex(members, profileId)
      historical == countVisits(members[i].guest_visits, guestName, currentSeason)
  IN  IF i = 0 THEN countTodays(todaysCheckIns, profileId, guestName)
      ELSE historical + countTodays(todaysCheckIns, profileId, guestName)

\* GuestValidationService.getGuestVisitCount
getGuestVisitCount(guestName, todaysCheckIns, profileId, memberItem, today) ==
  LET members == getAllMembers(memberItem)
      currentSeason == getCurrentSeason(today)
      i == findIndex(members, profileId)
      historical == countVisits(members[i].guest_visits, guestName, currentSeason)
  IN  IF i = 0 THEN 0
      ELSE historical + countTodays(todaysCheckIns, profileId, guestName)

\* the validateGuestVisitLimit of DataUtils.ts, which flags from a count of three
validateGuestVisitLimit_fromThree(guest, profileId, todaysCheckIns, existingGuestNames, alertsItem, memberItem, today) ==
  LET visitCount ==
        getGuestVisitCount(guest.name, todaysCheckIns, profileId, memberItem, today)
  IN  IF trim(guest.name) = <<>>
        THEN [over |-> FALSE, alerts |-> alertsItem]
      ELSE IF includes(existingGuestNames, toLowerCase(guest.name))
        THEN [over |-> FALSE, alerts |-> alertsItem]
      ELSE IF visitCount >= VisitLimit
        THEN [over |-> TRUE,
              alerts |-> createAlert(alertsItem, profileId, guest.name, "GuestLimit",
                                     VisitMessage(visitCount + 1), today)]
      ELSE [over |-> FALSE, alerts |-> alertsItem]

\* a variant of validateGuestVisitLimit without the check of the names already
\* on the record
validateGuestVisitLimit_noExisting(guest, profileId, todaysCheckIns, existingGuestNames, alertsItem, memberItem, today) ==
  LET visitCount ==
        getGuestVisitCount(guest.name, todaysCheckIns, profileId, memberItem, today)
  IN  IF trim(guest.name) = <<>>
        THEN [over |-> FALSE, alerts |-> alertsItem]
      ELSE IF visitCount > VisitLimit
        THEN [over |-> TRUE,
              alerts |-> createAlert(alertsItem, profileId, guest.name, "GuestLimit",
                                     VisitMessage(visitCount + 1), today)]
      ELSE [over |-> FALSE, alerts |-> alertsItem]

\* GuestValidationService.validateGuestVisitLimit: whether the guest is flagged,
\* and the alert item after the call
validateGuestVisitLimit(guest, profileId, todaysCheckIns, existingGuestNames, alertsItem, memberItem, today) ==
  LET visitCount ==
        getGuestVisitCount(guest.name, todaysCheckIns, profileId, memberItem, today)
  IN  IF trim(guest.name) = <<>>
        THEN [over |-> FALSE, alerts |-> alertsItem]
      ELSE IF includes(existingGuestNames, toLowerCase(guest.name))
        THEN [over |-> FALSE, alerts |-> alertsItem]
      ELSE IF visitCount > VisitLimit
        THEN [over |-> TRUE,
              alerts |-> createAlert(alertsItem, profileId, guest.name, "GuestLimit",
                                     VisitMessage(visitCount + 1), today)]
      ELSE [over |-> FALSE, alerts |-> alertsItem]

\* a variant of validateGuestCount that refuses a total of exactly five
validateGuestCount_offByOne(currentCount, newCount) ==
  IF currentCount + newCount >= MaxGuestsPerDay
    THEN [valid |-> FALSE,
          message |-> [kind |-> "Cannot add more guests. Maximum 5 guests allowed per member per day.",
                       name |-> <<>>, count |-> newCount, current |-> currentCount]]
    ELSE [valid |-> TRUE,
          message |-> [kind |-> "", name |-> <<>>, count |-> 0, current |-> 0]]

\* a variant of validateGuestCount that caps the proposed guests alone
validateGuestCount_proposedOnly(currentCount, newCount) ==
  IF newCount > MaxGuestsPerDay
    THEN [valid |-> FALSE,
          message |-> [kind |-> "Cannot add more guests. Maximum 5 guests allowed per member per day.",
                       name |-> <<>>, count |-> newCount, current |-> currentCount]]
    ELSE [valid |-> TRUE,
          message |-> [kind |-> "", name |-> <<>>, count |-> 0, current |-> 0]]

\* GuestValidationService.validateGuestCount
validateGuestCount(currentCount, newCount) ==
  IF currentCount + newCount > MaxGuestsPerDay
    THEN [valid |-> FALSE,
          message |-> [kind |-> "Cannot add more guests. Maximum 5 guests allowed per member per day.",
                       name |-> <<>>, count |-> newCount, current |-> currentCount]]
    ELSE [valid |-> TRUE,
          message |-> [kind |-> "", name |-> <<>>, count |-> 0, current |-> 0]]

\* one pass of the for loop of processGuests: the guest is pushed on
\* guestsOverLimit when validateGuestVisitLimit returned true
pushIfOver(guest, verdict, rest) ==
  [guestsOverLimit |-> (IF verdict.over THEN <<guest>> ELSE <<>>) \o rest.guestsOverLimit,
   alerts |-> rest.alerts]

RECURSIVE validateEach(_, _, _, _, _, _, _)
\* the rest of the loop, run on the alert item the first call left
validateRest(validGuests, verdict, profileId, todaysCheckIns, existingGuestNames, memberItem, today) ==
  pushIfOver(Head(validGuests), verdict,
             validateEach(Tail(validGuests), profileId, todaysCheckIns,
                          existingGuestNames, verdict.alerts, memberItem, today))

\* the for loop of GuestValidationService.processGuests over the valid guests
validateEach(validGuests, profileId, todaysCheckIns, existingGuestNames, alertsItem, memberItem, today) ==
  IF validGuests = <<>>
    THEN [guestsOverLimit |-> <<>>, alerts |-> alertsItem]
    ELSE validateRest(validGuests,
                      validateGuestVisitLimit(Head(validGuests), profileId, todaysCheckIns,
                                              existingGuestNames, alertsItem, memberItem,
                                              today),
                      profileId, todaysCheckIns, existingGuestNames, memberItem, today)

\* a variant of the return value of processGuests that takes the flagged guests
\* out of processedGuests
processed_dropFlagged(validGuests, checked) ==
  [processedGuests |-> SelectSeq(validGuests, LAMBDA g : ~includes(checked.guestsOverLimit, g)),
   guestsOverLimit |-> checked.guestsOverLimit,
   alerts |-> checked.alerts]

\* what processGuests returns, with the alert item its calls left
processed(validGuests, checked) ==
  [processedGuests |-> validGuests,
   guestsOverLimit |-> checked.guestsOverLimit,
   alerts |-> checked.alerts]

\* the loop of processGuests, on the filtered list
processValid(validGuests, profileId, todaysCheckIns, existingGuestNames, alertsItem, memberItem, today) ==
  processed(validGuests,
            validateEach(validGuests, profileId, todaysCheckIns, existingGuestNames,
                         alertsItem, memberItem, today))

\* a variant of processGuests without the filter on blank names
processGuests_keepBlank(guests, profileId, todaysCheckIns, existingGuestNames, alertsItem, memberItem, today) ==
  processValid(guests,
               profileId, todaysCheckIns, existingGuestNames, alertsItem, memberItem, today)

\* GuestValidationService.processGuests
processGuests(guests, profileId, todaysCheckIns, existingGuestNames, alertsItem, memberItem, today) ==
  processValid(filterNamed(guests),
               profileId, todaysCheckIns, existingGuestNames, alertsItem, memberItem, today)

-----------------------------------------------------------------------------
(* Check-in ledger and service: CheckInStorageService *)

\* CheckInStorageService.getTodaysCheckins: the stored list, [] when the item is missing
getTodaysCheckins(checkinsItem) ==
  IF checkinsItem = <<>> THEN <<>> ELSE checkinsItem[1]

\* CheckInStorageService.clearTodaysCheckins: setItem(TODAYS_CHECKINS_KEY, '[]')
clearTodaysCheckins(checkinsItem) == << <<>> >>

\* the {success, message} texts of handleGuestCheckIn
Msg(kind, name, count, current) ==
  [kind |-> kind, name |-> name, count |-> count, current |-> current]

\* what handleGuestCheckIn leaves and returns: the two storage items and the
\* {success, message} value
Outcome(checkinsItem, alertsItem, success, message) ==
  [checkins |-> checkinsItem, alerts |-> alertsItem,
   ret |-> [success |-> success, message |-> message]]

\* a variant of the ledger write that stores the new record alone, dropping
\* the records read before
writeCheckIn_overwrite(profileId, memberName, isAddingToExisting, checkIns, existingCheckInIndex, done, today) ==
  IF ~isAddingToExisting
    THEN Outcome(<< << [ profile_id    |-> profileId,
                         check_in_date |-> today,
                         guests        |-> done.processedGuests ] >> >>,
                 done.alerts, TRUE,
                 Msg("has been checked in", memberName, Len(done.processedGuests), 0))
    ELSE Outcome(<< [checkIns EXCEPT ![existingCheckInIndex].guests =
                                        @ \o done.processedGuests] >>,
                 done.alerts, TRUE,
                 Msg("Added guest(s) to check-in.", memberName,
                     Len(done.processedGuests), 0))

\* a variant of the ledger write whose add-guests branch writes the record
\* anew, stamped with the date of the call
writeCheckIn_restamp(profileId, memberName, isAddingToExisting, checkIns, existingCheckInIndex, done, today) ==
  IF ~isAddingToExisting
    THEN Outcome(<< Append(checkIns, [ profile_id    |-> profileId,
                                       check_in_date |-> today,
                                       guests        |-> done.processedGuests ]) >>,
                 done.alerts, TRUE,
                 Msg("has been checked in", memberName, Len(done.processedGuests), 0))
    ELSE Outcome(<< [checkIns EXCEPT ![existingCheckInIndex] =
                       [ profile_id    |-> profileId,
                         check_in_date |-> today,
                         guests        |-> @.guests \o done.processedGuests ]] >>,
                 done.alerts, TRUE,
                 Msg("Added guest(s) to check-in.", memberName,
                     Len(done.processedGuests), 0))

\* handleGuestCheckIn, lines 126-162: the ledger write and the success value
writeCheckIn(profileId, memberName, isAddingToExisting, checkIns, existingCheckInIndex, done, today) ==
  IF ~isAddingToExisting
    THEN Outcome(<< Append(checkIns, [ profile_id    |-> profileId,
                                       check_in_date |-> today,
                                       guests        |-> done.processedGuests ]) >>,
                 done.alerts, TRUE,
                 Msg("has been checked in", memberName, Len(done.processedGuests), 0))
    ELSE Outcome(<< [checkIns EXCEPT ![existingCheckInIndex].guests =
                                        @ \o done.processedGuests] >>,
                 done.alerts, TRUE,
                 Msg("Added guest(s) to check-in.", memberName,
                     Len(done.processedGuests), 0))

\* a variant of lines 108-124 that validates the guests, writing their alerts,
\* before it rejects the call for the cap
afterCount_alertsFirst(profileId, memberName, guests, isAddingToExisting, checkIns, existingCheckInIndex, existingGuests, guestCountValidation, checkinsItem, alertsItem, memberItem, today) ==
  IF ~guestCountValidation.valid
    THEN Outcome(checkinsItem,
                 processGuests(guests, profileId, checkIns,
                               [k \in 1..Len(existingGuests) |->
                                  toLowerCase(existingGuests[k].name)],
                               alertsItem, memberItem, today).alerts,
                 FALSE, guestCountValidation.message)
    ELSE writeCheckIn(profileId, memberName, isAddingToExisting, checkIns,
                      existingCheckInIndex,
                      processGuests(guests, profileId, checkIns,
                                    [k \in 1..Len(existingGuests) |->
                                       toLowerCase(existingGuests[k].name)],
                                    alertsItem, memberItem, today),
                      today)

\* handleGuestCheckIn, lines 108-124: the cap rejection, else processGuests
\* with the lower-cased names of the guests already on the record
afterCount(profileId, memberName, guests, isAddingToExisting, checkIns, existingCheckInIndex, existingGuests, guestCountValidation, checkinsItem, alertsItem, memberItem, today) ==
  IF ~guestCountValidation.valid
    THEN Outcome(checkinsItem, alertsItem, FALSE, guestCountValidation.message)
    ELSE writeCheckIn(profileId, memberName, isAddingToExisting, checkIns,
                      existingCheckInIndex,
                      processGuests(guests, profileId, checkIns,
                                    [k \in 1..Len(existingGuests) |->
                                       toLowerCase(existingGuests[k].name)],
                                    alertsItem, memberItem, today),
                      today)

\* handleGuestCheckIn, lines 104-106: the current guest count and the count of
\* proposed guests whose name is not blank
countGuests(profileId, memberName, guests, isAddingToExisting, checkIns, existingCheckInIndex, existingGuests, checkinsItem, alertsItem, memberItem, today) ==
  afterCount(profileId, memberName, guests, isAddingToExisting, checkIns,
             existingCheckInIndex, existingGuests,
             validateGuestCount(Len(existingGuests),
                                Len(filterNamed(guests))),
             checkinsItem, alertsItem, memberItem, today)

\* a variant of the precondition checks without the already-checked-in
\* rejection: a repeated check-in writes a second record
afterLookup_noDuplicateCheck(profileId, memberName, guests, isAddingToExisting, checkIns, existingCheckInIndex, checkinsItem, alertsItem, memberItem, today) ==
  IF isAddingToExisting /\ existingCheckInIndex = 0
    THEN Outcome(checkinsItem, alertsItem, FALSE,
                 Msg("Member is not checked in today", <<>>, 0, 0))
  ELSE countGuests(profileId, memberName, guests, isAddingToExisting, checkIns,
                   existingCheckInIndex,
                   IF existingCheckInIndex # 0
                     THEN checkIns[existingCheckInIndex].guests ELSE <<>>,
                   checkinsItem, alertsItem, memberItem, today)

\* a variant of the precondition checks that treats a repeated check-in as
\* adding the proposed guests to the record
afterLookup_mergeDuplicate(profileId, memberName, guests, isAddingToExisting, checkIns, existingCheckInIndex, checkinsItem, alertsItem, memberItem, today) ==
  IF isAddingToExisting /\ existingCheckInIndex = 0
    THEN Outcome(checkinsItem, alertsItem, FALSE,
                 Msg("Member is not checked in today", <<>>, 0, 0))
  ELSE countGuests(profileId, memberName, guests, existingCheckInIndex # 0, checkIns,
                   existingCheckInIndex,
                   IF existingCheckInIndex # 0
                     THEN checkIns[existingCheckInIndex].guests ELSE <<>>,
                   checkinsItem, alertsItem, memberItem, today)

\* handleGuestCheckIn, lines 92-102: the two precondition rejections
afterLookup(profileId, memberName, guests, isAddingToExisting, checkIns, existingCheckInIndex, checkinsItem, alertsItem, memberItem, today) ==
  IF ~isAddingToExisting /\ existingCheckInIndex # 0
    THEN Outcome(checkinsItem, alertsItem, FALSE,
                 Msg("is already checked in today.", memberName, 0, 0))
  ELSE IF isAddingToExisting /\ existingCheckInIndex = 0
    THEN Outcome(checkinsItem, alertsItem, FALSE,
                 Msg("Member is not checked in today", <<>>, 0, 0))
  ELSE countGuests(profileId, memberName, guests, isAddingToExisting, checkIns,
                   existingCheckInIndex,
                   IF existingCheckInIndex # 0
                     THEN checkIns[existingCheckInIndex].guests ELSE <<>>,
                   checkinsItem, alertsItem, memberItem, today)

\* handleGuestCheckIn, lines 85-90: the ledger as read, and the member's record in it
withLedger(profileId, memberName, guests, isAddingToExisting, checkIns, checkinsItem, alertsItem, memberItem, today) ==
  afterLookup(profileId, memberName, guests, isAddingToExisting, checkIns,
              findIndex(checkIns, profileId),
              checkinsItem, alertsItem, memberItem, today)

\* CheckInStorageService.handleGuestCheckIn: the two storage items after the
\* call and the value it returns
handleGuestCheckIn(profileId, memberName, guests, isAddingToExisting, checkinsItem, alertsItem, memberItem, today) ==
  withLedger(profileId, memberName, guests, isAddingToExisting,
             getTodaysCheckins(checkinsItem), checkinsItem, alertsItem, memberItem, today)

\* CheckInStorageService.addCheckIn
addCheckIn(member, guests, checkinsItem, alertsItem, memberItem, today) ==
  handleGuestCheckIn(member.profile_id,
                     IF member.name = <<>> THEN Str_Member ELSE member.name[1],
                     guests, FALSE, checkinsItem, alertsItem, memberItem, today)

\* CheckInStorageService.addGuestsToExistingCheckIn
addGuestsToExistingCheckIn(profileId, newGuests, checkinsItem, alertsItem, memberItem, today) ==
  handleGuestCheckIn(profileId, getMemberName(profileId, memberItem),
                     newGuests, TRUE, checkinsItem, alertsItem, memberItem, today)

\* a variant of prepareUploadData that sends the check-ins without the alerts
prepareUploadData_noAlerts(deviceId, checkinsItem, alertsItem, today) ==
  [ checkins  |-> getTodaysCheckins(checkinsItem),
    alerts    |-> <<>>,
    device_id |-> deviceId,
    season    |-> getCurrentSeason(today) ]

\* CheckInStorageService.prepareUploadData
prepareUploadData(deviceId, checkinsItem, alertsItem, today) ==
  [ checkins  |-> getTodaysCheckins(checkinsItem),
    alerts    |-> getTodaysAlerts(alertsItem),
    device_id |-> deviceId,
    season    |-> getCurrentSeason(today) ]

-----------------------------------------------------------------------------
(* HomeScreen handlers and the remote endpoints *)

\* MemberStorageService.storeApiData: the two items it writes
storeApiData(apiData, today) ==
  [member_data |-> <<apiData>>, last_download_date |-> <<today>>]

\* HomeScreen.handleDownloadData, line 76: setItem(TODAYS_CHECKINS_KEY, '[]')
resetCheckinsOnDownload(checkinsItem) == << <<>> >>

\* HomeScreen.handleDownloadData: what it does to the alert item (nothing)
alertsAfterDownload(alertsItem) == alertsItem

\* how a press of Download / Upload can end: the device is offline (the handler
\* returns before any request), fetch rejects, the HTTP response is not ok, the
\* body carries a status other than 200, or the body carries status 200
Outcomes == {"offline", "transport", "http", "status", "ok"}

\* how a press of Upload can end: as above, or the body carries status 200 and
\* no data.checkins, so that reading stats.total (line 117) throws after the
\* two clears and the catch block reports a failure
UploadOutcomes == Outcomes \cup {"okNoStats"}

DeviceId == "gate_tablet_1"

\* what the last operation reported: its name, the success flag, the kind of
\* message, and the payload prepareUploadData returned (<<>>: none)
Result(op, success, kind, payload) ==
  [op |-> op, success |-> success, kind |-> kind, payload |-> payload]

-----------------------------------------------------------------------------
(* State machine *)

Init ==
  /\ member_data = <<>>
  /\ last_download_date = <<>>
  /\ todays_checkins = <<>>
  /\ todays_alerts = <<>>
  /\ hasDownloadedData = FALSE
  /\ isDataDownloadedToday = FALSE
  /\ inflight = <<>>
  /\ screen = "Home"
  /\ now \in Todays
  /\ result = Result("init", TRUE, "", <<>>)
  /\ phase = 0

\* the storage and the reported result after a check-in service call
Served(op, out) ==
  /\ Len(getTodaysAlerts(out.alerts)) <= MaxAlerts
  /\ todays_checkins' = out.checkins
  /\ todays_alerts' = out.alerts
  /\ result' = Result(op, out.ret.success, out.ret.message.kind, <<>>)
  /\ UNCHANGED <<member_data, last_download_date, hasDownloadedData, isDataDownloadedToday, now>>

\* a caller awaits addCheckIn(member, guests)
AddCheckIn(member, guests) ==
  Served("addCheckIn",
         addCheckIn(member, guests, todays_checkins, todays_alerts, member_data, now))

\* a caller awaits addGuestsToExistingCheckIn(profileId, newGuests)
AddGuests(profileId, newGuests) ==
  Served("addGuests",
         addGuestsToExistingCheckIn(profileId, newGuests, todays_checkins,
                                    todays_alerts, member_data, now))

\* a caller awaits prepareUploadData(deviceId)
PrepareUpload ==
  /\ result' = Result("prepareUpload", TRUE, "",
                      << prepareUploadData(DeviceId, todays_checkins, todays_alerts, now) >>)
  /\ UNCHANGED <<member_data, last_download_date, todays_checkins, todays_alerts,
                 hasDownloadedData, isDataDownloadedToday, now>>

\* HomeScreen.handleDownloadData, with the way the press ends and the directory
\* the server returns
HandleDownloadData(outcome, apiData) ==
  IF outcome = "offline"
    THEN /\ result' = Result("download", FALSE, "No Connection", <<>>)
         /\ UNCHANGED <<member_data, last_download_date, todays_checkins, todays_alerts,
                        hasDownloadedData, isDataDownloadedToday, now>>
  ELSE IF outcome # "ok"
    THEN /\ result' = Result("download", FALSE, "Failed to download data", <<>>)
         /\ UNCHANGED <<member_data, last_download_date, todays_checkins, todays_alerts,
                        hasDownloadedData, isDataDownloadedToday, now>>
  ELSE LET stored == storeApiData(apiData, now)
       IN  /\ member_data' = stored.member_data
           /\ last_download_date' = <<now>>
           /\ todays_checkins' = resetCheckinsOnDownload(todays_checkins)
           /\ todays_alerts' = alertsAfterDownload(todays_alerts)
           /\ hasDownloadedData' = TRUE
           /\ isDataDownloadedToday' = TRUE
           /\ result' = Result("download", TRUE, "Downloaded data for members!", <<>>)
           /\ UNCHANGED now

\* a variant of handleUploadData that clears the two items before it knows how
\* the request ended
HandleUploadData_clearFirst(outcome) ==
  /\ todays_checkins' = clearTodaysCheckins(todays_checkins)
  /\ todays_alerts' = clearTodaysAlerts(todays_alerts)
  /\ result' = IF hasDownloadedData /\ outcome = "ok"
                 THEN Result("upload", TRUE, "Data uploaded successfully!", <<>>)
                 ELSE Result("upload", FALSE, "Failed to upload data", <<>>)
  /\ UNCHANGED <<member_data, last_download_date, hasDownloadedData, isDataDownloadedToday, now>>

\* HomeScreen.handleUploadData, with the way the press ends
HandleUploadData(outcome) ==
  IF ~hasDownloadedData
    THEN /\ result' = Result("upload", FALSE, "No Data", <<>>)
         /\ UNCHANGED <<member_data, last_download_date, todays_checkins,
                        todays_alerts, hasDownloadedData, isDataDownloadedToday, now>>
  ELSE IF outcome = "offline"
    THEN /\ result' = Result("upload", FALSE, "No Connection", <<>>)
         /\ UNCHANGED <<member_data, last_download_date, todays_checkins,
                        todays_alerts, hasDownloadedData, isDataDownloadedToday, now>>
  ELSE IF outcome \notin {"ok", "okNoStats"}
    THEN /\ result' = Result("upload", FALSE, "Failed to upload data", <<>>)
         /\ UNCHANGED <<member_data, last_download_date, todays_checkins,
                        todays_alerts, hasDownloadedData, isDataDownloadedToday, now>>
  ELSE /\ todays_checkins' = clearTodaysCheckins(todays_checkins)
       /\ todays_alerts' = clearTodaysAlerts(todays_alerts)
       /\ result' = IF outcome = "ok"
                      THEN Result("upload", TRUE, "Data uploaded successfully!", <<>>)
                      ELSE Result("upload", FALSE, "Failed to upload data", <<>>)
       /\ UNCHANGED <<member_data, last_download_date, hasDownloadedData, isDataDownloadedToday, now>>

CheckIn == \E member \in MemberObjs : \E guests \in GuestLists(member.profile_id) :
             AddCheckIn(member, guests) /\ UNCHANGED <<phase, inflight, screen>>

MoreGuests == \E profileId \in ProfileIds : \E guests \in GuestLists(profileId) :
                AddGuests(profileId, guests) /\ UNCHANGED <<phase, inflight, screen>>

Prepare == PrepareUpload /\ UNCHANGED <<phase, inflight, screen>>

Download == \E outcome \in Outcomes :
              \E apiData \in (IF outcome = "ok" THEN Snapshots ELSE {SnapA}) :
                HandleDownloadData(outcome, apiData) /\ UNCHANGED <<phase, inflight, screen>>

Upload == \E outcome \in UploadOutcomes : HandleUploadData(outcome) /\ UNCHANGED <<phase, inflight, screen>>

Next ==
  \/ CheckIn
  \/ MoreGuests
  \/ Prepare
  \/ Download
  \/ Upload

Spec == Init /\ [][Next]_vars

-----------------------------------------------------------------------------
(* The round-trip scenario.  SpecRoundTrip runs the same operations as Spec   *)
(* and tracks in phase how far the last operations match the scenario:        *)
(*   1  a download has just been ingested                                     *)
(*   2  then addCheckIn succeeded for a member with two guests                *)
(*   3  then addCheckIn succeeded for a second member with no guests          *)
(*   4  then addCheckIn was rejected for a member already checked in          *)
(*   5  then prepareUploadData was called                                     *)
(* and 0 otherwise.                                                           *)

\* the number of proposed guests whose name is not blank
namedGuests(guests) == Len(filterNamed(guests))

RtCheckIn == \E member \in MemberObjs : \E guests \in GuestLists(member.profile_id) :
  /\ AddCheckIn(member, guests)
  /\ phase' = CASE phase = 1 /\ result'.success /\ namedGuests(guests) = 2 -> 2
                [] phase = 2 /\ result'.success /\ namedGuests(guests) = 0 -> 3
                [] phase = 3 /\ ~result'.success
                     /\ result'.kind = "is already checked in today." -> 4
                [] OTHER -> 0
  /\ UNCHANGED <<inflight, screen>>

RtMoreGuests == \E profileId \in ProfileIds : \E guests \in GuestLists(profileId) :
  AddGuests(profileId, guests) /\ phase' = 0 /\ UNCHANGED <<inflight, screen>>

RtPrepare == PrepareUpload /\ phase' = (IF phase = 4 THEN 5 ELSE 0) /\ UNCHANGED <<inflight, screen>>

RtDownload == \E outcome \in Outcomes :
  \E apiData \in (IF outcome = "ok" THEN Snapshots ELSE {SnapA}) :
    /\ HandleDownloadData(outcome, apiData)
    /\ phase' = (IF result'.success THEN 1 ELSE 0)
    /\ UNCHANGED <<inflight, screen>>

RtUpload == \E outcome \in UploadOutcomes :
  HandleUploadData(outcome) /\ phase' = 0 /\ UNCHANGED <<inflight, screen>>

NextRoundTrip ==
  \/ RtCheckIn
  \/ RtMoreGuests
  \/ RtPrepare
  \/ RtDownload
  \/ RtUpload

SpecRoundTrip == Init /\ [][NextRoundTrip]_vars

-----------------------------------------------------------------------------
(* Vocabulary of the properties *)

\* the ledger and the alert log as a reader sees them
Ledger == getTodaysCheckins(todays_checkins)
AlertLog == getTodaysAlerts(todays_alerts)

\* positions of the member's records in a list of check-ins
RecordsOf(checkIns, profileId) ==
  {i \in 1..Len(checkIns) : checkIns[i].profile_id = profileId}

HasRecord(profileId) == RecordsOf(Ledger, profileId) # {}

\* the guests on the member's record in a list of check-ins (<<>> without one)
GuestsOf(checkIns, profileId) ==
  IF RecordsOf(checkIns, profileId) = {} THEN <<>>
  ELSE checkIns[CHOOSE i \in RecordsOf(checkIns, profileId) : TRUE].guests

\* a name with no character other than spaces
IsBlank(name) == \A i \in 1..Len(name) : name[i] = " "

\* the number of proposed guests with a name
NamedCount(guests) == Cardinality({i \in 1..Len(guests) : ~IsBlank(guests[i].name)})

\* the name a message uses for a Member object
DisplayName(member) == IF member.name = <<>> THEN Str_Member ELSE member.name[1]

\* the member's directory visits by that guest in the current season
SeasonVisits(profileId, guestName) ==
  LET members == getAllMembers(member_data)
  IN  { <<m, v>> \in (1..Len(members)) \X (1..8) :
          /\ members[m].profile_id = profileId
          /\ v <= Len(members[m].guest_visits)
          /\ toLowerCase(members[m].guest_visits[v].guest_name) = toLowerCase(guestName)
          /\ getSeasonFromDate(members[m].guest_visits[v].visit_date)
               = getCurrentSeason(now) }

\* the alerts of a list written for that member and guest as over the limit
GuestLimitAlerts(alerts, profileId, guestName) ==
  {i \in 1..Len(alerts) : /\ alerts[i].type = "GuestLimit"
                          /\ alerts[i].profile_id = profileId
                          /\ alerts[i].guest_name = guestName}

-----------------------------------------------------------------------------
(* Properties *)

\* C1: the ledger never holds two CheckIn records with the same profile_id.
C1_OneCheckInPerProfile ==
  \A i, j \in 1..Len(Ledger) :
    Ledger[i].profile_id = Ledger[j].profile_id => i = j

\* C1 witness: both members are checked in and a further check-in was refused.
C1_Witness ==
  /\ Len(Ledger) = 2
  /\ result.op = "addCheckIn"
  /\ ~result.success

\* C2: in every reachable state, addCheckIn for a member who has a record
\* returns success false with the already-checked-in message naming the member
\* and leaves the ledger item and the alert item as they were, for every
\* proposed guest list.
C2_DuplicateCheckInRejected ==
  \A member \in MemberObjs : \A guests \in GuestLists(member.profile_id) :
    HasRecord(member.profile_id) =>
      LET out == addCheckIn(member, guests, todays_checkins, todays_alerts,
                            member_data, now)
      IN  /\ out.ret.success = FALSE
          /\ out.ret.message =
               Msg("is already checked in today.", DisplayName(member), 0, 0)
          /\ out.checkins = todays_checkins
          /\ out.alerts = todays_alerts

\* C2 witness: a check-in of a member with guests on the record was just refused
\* as a duplicate.
C2_Witness ==
  /\ result.op = "addCheckIn"
  /\ ~result.success
  /\ result.kind = "is already checked in today."
  /\ \E i \in 1..Len(Ledger) : Ledger[i].guests # <<>>

\* C3: in every reachable state and for every proposed guest list, addCheckIn
\* for a member without a record (existing count 0) and
\* addGuestsToExistingCheckIn for a member with one (existing count = the
\* guests on the record) fail and append nothing when existing + named > 5,
\* and otherwise succeed and leave the member's record with exactly
\* existing + named guests.
C3_CapEnforced ==
  \A member \in MemberObjs : \A guests \in GuestLists(member.profile_id) :
    LET pid == member.profile_id
        existing == Len(GuestsOf(Ledger, pid))
        out == IF HasRecord(pid)
                 THEN addGuestsToExistingCheckIn(pid, guests, todays_checkins,
                                                 todays_alerts, member_data, now)
                 ELSE addCheckIn(member, guests, todays_checkins, todays_alerts,
                                 member_data, now)
    IN  IF existing + NamedCount(guests) > 5
          THEN /\ ~out.ret.success
               /\ out.checkins = todays_checkins
          ELSE /\ out.ret.success
               /\ Len(GuestsOf(getTodaysCheckins(out.checkins), pid))
                    = existing + NamedCount(guests)

\* C3 witness: an add-guests call was just refused for the cap on a record
\* that holds four guests (four and two are over five).
C3_Witness ==
  /\ result.op = "addGuests"
  /\ ~result.success
  /\ result.kind = validateGuestCount(4, 2).message.kind
  /\ \E i \in 1..Len(Ledger) : Len(Ledger[i].guests) = 4

\* C4 (as claimed): when the member's directory history holds exactly three
\* visits by the typed guest in the current season and the guest is not on the
\* member's record, a check-in (or add-guests) step with that guest succeeds,
\* stores the guest and appends exactly one alert, of type GuestLimit, for
\* that member and guest.
C4_FourthVisitFlagged ==
  [][ \A member \in MemberObjs :
        LET pid == member.profile_id
            g == TypedName(pid)
        IN  ( /\ Cardinality(SeasonVisits(pid, g)) = 3
              /\ \A k \in 1..Len(GuestsOf(Ledger, pid)) :
                   toLowerCase(GuestsOf(Ledger, pid)[k].name) # toLowerCase(g)
              /\ Len(GuestsOf(Ledger, pid)) < 5
              /\ \/ AddCheckIn(member, <<Guest(g)>>) /\ ~HasRecord(pid)
                 \/ AddGuests(pid, <<Guest(g)>>) /\ HasRecord(pid) )
            => /\ result'.success
               /\ \E k \in 1..Len(GuestsOf(Ledger', pid)) :
                    GuestsOf(Ledger', pid)[k].name = g
               /\ Len(AlertLog') = Len(AlertLog) + 1
               /\ SubSeq(AlertLog', 1, Len(AlertLog)) = AlertLog
               /\ AlertLog'[Len(AlertLog')].type = "GuestLimit"
               /\ AlertLog'[Len(AlertLog')].profile_id = pid
               /\ AlertLog'[Len(AlertLog')].guest_name = g
    ]_vars

\* C5 (as claimed): when the member has exactly three visits by the typed guest
\* in the current season and a check-in step with that guest succeeds, the
\* guest entry stored on the member's record carries a note with an ALERT
\* marker that cites visit #4.
C5_OverLimitNoteStored ==
  [][ \A member \in MemberObjs :
        LET pid == member.profile_id
            g == TypedName(pid)
        IN  ( /\ Cardinality(SeasonVisits(pid, g)) = 3
              /\ AddCheckIn(member, <<Guest(g)>>)
              /\ result'.success )
            => \E k \in 1..Len(GuestsOf(Ledger', pid)) :
                 /\ GuestsOf(Ledger', pid)[k].name = g
                 /\ \E n \in 1..Len(GuestsOf(Ledger', pid)[k].notes) :
                      /\ GuestsOf(Ledger', pid)[k].notes[n].text
                           = "ALERT: This is visit # (exceeds 3-visit limit)"
                      /\ GuestsOf(Ledger', pid)[k].notes[n].visit = 4
    ]_vars

\* C6 (as claimed): after a successful download-ingest the directory is stored,
\* the last-download timestamp is set, and both the ledger and the alert log
\* are empty.
C6_DownloadResetsBoth ==
  (result.op = "download" /\ result.success)
    => /\ member_data # <<>>
       /\ member_data[1] \in Snapshots
       /\ last_download_date = <<now>>
       /\ Ledger = <<>>
       /\ AlertLog = <<>>

\* C7: the two clears of upload-finalize leave the ledger and the alert log
\* empty whatever they hold, and in the state a successful upload leaves,
\* both are empty and running the two clears again changes nothing.
C7_FinalizeIdempotent ==
  /\ getTodaysCheckins(clearTodaysCheckins(todays_checkins)) = <<>>
  /\ getTodaysAlerts(clearTodaysAlerts(todays_alerts)) = <<>>
  /\ (result.op = "upload" /\ result.success)
       => /\ Ledger = <<>>
          /\ AlertLog = <<>>
          /\ clearTodaysCheckins(todays_checkins) = todays_checkins
          /\ clearTodaysAlerts(todays_alerts) = todays_alerts

\* C7 witness: an upload has just been finalized.
C7_Witness ==
  /\ result.op = "upload"
  /\ result.success
  /\ todays_checkins = << <<>> >>
  /\ todays_alerts = << <<>> >>

\* C8: a step of the upload handler clears the ledger and the alert log only
\* when the device has data and the response body carries status 200 (it then
\* reports success unless the body lacks the statistics); when the device is
\* offline, fetch rejects, the HTTP response is not ok or the status is not 200
\* it reports failure and leaves both items, and so the payload a retry would
\* send, as they were.
C8_FailedUploadKeepsRecords ==
  [][ \A outcome \in UploadOutcomes :
        HandleUploadData(outcome) =>
          IF outcome \in {"ok", "okNoStats"} /\ hasDownloadedData
            THEN /\ result'.success = (outcome = "ok")
                 /\ getTodaysCheckins(todays_checkins') = <<>>
                 /\ getTodaysAlerts(todays_alerts') = <<>>
            ELSE /\ ~result'.success
                 /\ todays_checkins' = todays_checkins
                 /\ todays_alerts' = todays_alerts
                 /\ prepareUploadData(DeviceId, todays_checkins', todays_alerts', now')
                      = prepareUploadData(DeviceId, todays_checkins, todays_alerts, now)
    ]_vars

\* C8 witness: an upload request has just failed with check-ins and alerts
\* waiting in the log.
C8_Witness ==
  /\ result.op = "upload"
  /\ ~result.success
  /\ result.kind = "Failed to upload data"
  /\ Ledger # <<>>
  /\ AlertLog # <<>>

\* C9: a step of prepareUploadData changes no stored item and returns the
\* ledger and the alert log as stored, in order, with the device id handed in
\* and the current season.
C9_PrepareUploadReadOnly ==
  [][ result'.op = "prepareUpload" =>
        /\ UNCHANGED <<member_data, last_download_date, todays_checkins, todays_alerts>>
        /\ result'.payload = << [ checkins  |-> Ledger,
                                  alerts    |-> AlertLog,
                                  device_id |-> DeviceId,
                                  season    |-> getCurrentSeason(now) ] >>
    ]_vars

\* C9 witness: a payload was just prepared from a ledger and an alert log that
\* both hold records.
C9_Witness ==
  /\ result.op = "prepareUpload"
  /\ Len(result.payload[1].checkins) = 2
  /\ result.payload[1].alerts # <<>>

\* C10: when a download-ingest was followed by a check-in with two guests, a
\* second member's check-in with no guests, a rejected repeat check-in and
\* prepareUploadData, the payload holds exactly two check-in records, the first
\* with two guests and the second with none.
C10_RoundTrip ==
  phase = 5 =>
    /\ result.op = "prepareUpload"
    /\ Len(result.payload[1].checkins) = 2
    /\ Len(result.payload[1].checkins[1].guests) = 2
    /\ Len(result.payload[1].checkins[2].guests) = 0

\* C10 witness: the scenario has run to its end.
C10_Witness == phase = 5

-----------------------------------------------------------------------------
(* Visit count, rejections, the per-member state machine *)

\* the spellings a guest's name is looked up under
Spellings == {Str_Sam, Str_sam, Str_SAM}

\* whether the directory holds a member with that profile_id
InDirectory(profileId) ==
  \E m \in 1..Len(getAllMembers(member_data)) :
    getAllMembers(member_data)[m].profile_id = profileId

\* the guests of that name, case aside, on the member's records of the day
TodaysNamed(profileId, guestName) ==
  { <<c, k>> \in (1..Len(Ledger)) \X (1..MaxGuestsPerDay) :
      /\ Ledger[c].profile_id = profileId
      /\ k <= Len(Ledger[c].guests)
      /\ toLowerCase(Ledger[c].guests[k].name) = toLowerCase(guestName) }

\* the directory with that member alone, and the ledger with that member's
\* records alone
DirectoryOf(profileId) ==
  IF member_data = <<>> THEN <<>>
  ELSE << [members |-> SelectSeq(member_data[1].members,
                                 LAMBDA m : m.profile_id = profileId)] >>

LedgerOf(profileId) == SelectSeq(Ledger, LAMBDA c : c.profile_id = profileId)

C12_RejectionsMutateNothing ==
  \A member \in MemberObjs : \A guests \in GuestLists(member.profile_id) :
    LET pid == member.profile_id
        added == addGuestsToExistingCheckIn(pid, guests, todays_checkins,
                                            todays_alerts, member_data, now)
        new == addCheckIn(member, guests, todays_checkins, todays_alerts,
                          member_data, now)
        overCap == Len(GuestsOf(Ledger, pid)) + NamedCount(guests) > MaxGuestsPerDay
        capKind == "Cannot add more guests. Maximum 5 guests allowed per member per day."
    IN  /\ ~HasRecord(pid) =>
             /\ ~added.ret.success
             /\ added.ret.message.kind = "Member is not checked in today"
             /\ added.checkins = todays_checkins
             /\ added.alerts = todays_alerts
        /\ (HasRecord(pid) /\ overCap) =>
             /\ ~added.ret.success
             /\ added.ret.message.kind = capKind
             /\ added.checkins = todays_checkins
             /\ added.alerts = todays_alerts
        /\ (~HasRecord(pid) /\ overCap) =>
             /\ ~new.ret.success
             /\ new.ret.message.kind = capKind
             /\ new.checkins = todays_checkins
             /\ new.alerts = todays_alerts

\* C12 witness: a check-in of member 1 with six guests named Sam was just
\* refused for the cap while the directory gives Sam four visits this season
\* (over the visit limit), and the alert log is empty.
C12_Witness ==
  /\ result.op = "addCheckIn"
  /\ ~result.success
  /\ result.kind = "Cannot add more guests. Maximum 5 guests allowed per member per day."
  /\ Cardinality(SeasonVisits(1, Str_Sam)) = 4
  /\ ~HasRecord(1)
  /\ AlertLog = <<>>

-----------------------------------------------------------------------------
(* SpecGate: the operations of Spec and the manual alert of the check-in      *)
(* screen.                                                                    *)

\* the text typed for a manual alert, as a message of the alert log
ManualMessage == [text |-> "gate alert", visit |-> 0]

\* CheckInScreen, the Submit button of the manual alert modal: createAlert with
\* profile_id 0, no guest name and type ManualGateAlert
CreateManualAlert ==
  /\ Len(getTodaysAlerts(todays_alerts)) < MaxAlerts
  /\ todays_alerts' = createAlert(todays_alerts, 0, <<>>, "ManualGateAlert",
                                  ManualMessage, now)
  /\ result' = Result("manualAlert", TRUE, "Alert Created", <<>>)
  /\ UNCHANGED <<member_data, last_download_date, todays_checkins,
                 hasDownloadedData, isDataDownloadedToday, now>>

ManualAlert == CreateManualAlert /\ UNCHANGED <<phase, inflight, screen>>

NextGate ==
  \/ CheckIn
  \/ MoreGuests
  \/ Prepare
  \/ Download
  \/ Upload
  \/ ManualAlert

SpecGate == Init /\ [][NextGate]_vars

\* C13: in every step and for every member, the member's record leaves the
\* ledger only in a successful download or in an upload whose response carried
\* status 200 (an add-guests call, a manual alert, a prepare, a failed upload
\* or download and another member's check-in keep it); a record enters the
\* ledger only in a successful addCheckIn; and addCheckIn succeeds only for a
\* member without a record, appending that member's record after the others.
C13_CheckedInUntilReset ==
  [][ /\ \A pid \in ProfileIds :
           /\ (HasRecord(pid) /\ ~HasRecord(pid)') =>
                \/ result'.op = "download" /\ result'.success
                \/ /\ result'.op = "upload"
                   /\ hasDownloadedData
                   /\ \E outcome \in {"ok", "okNoStats"} : HandleUploadData(outcome)
           /\ (~HasRecord(pid) /\ HasRecord(pid)') =>
                result'.op = "addCheckIn" /\ result'.success
      /\ (result'.op = "addCheckIn" /\ result'.success) =>
           /\ Len(Ledger') = Len(Ledger) + 1
           /\ SubSeq(Ledger', 1, Len(Ledger)) = Ledger
           /\ ~HasRecord(Ledger'[Len(Ledger')].profile_id)
    ]_vars

\* C13 witness: member 1 is checked in, guests were added and a manual alert
\* was then recorded, and a further check-in was just refused.
C13_Witness ==
  /\ HasRecord(1)
  /\ Len(GuestsOf(Ledger, 1)) = 2
  /\ \E a \in 1..Len(AlertLog) : AlertLog[a].type = "ManualGateAlert"
  /\ result.op = "addCheckIn"
  /\ ~result.success

-----------------------------------------------------------------------------
(* SpecInterleaved: check-in service calls that overlap.  handleGuestCheckIn  *)
(* reads the ledger (await getTodaysCheckins, line 85), runs its checks       *)
(* without suspending, then awaits processGuests (line 119, which awaits      *)
(* getAllMembers and createAlert) and only then writes the list it read, with *)
(* its change, back (lines 137 and 154).  CheckInScreen starts a call on each *)
(* tap without waiting for the one before (completeCheckIn is not awaited and *)
(* the Check In button is disabled only once the result has come back), so a  *)
(* second call can read the ledger before the first has written it.           *)

\* the calls that may be in flight together
MaxInflight == 2

\* the guest lists submitted in SpecInterleaved: none, or the typed guest
TapLists(profileId) == {<<>>, <<Guest(TypedName(profileId))>>}

\* a call between its read and its write: its arguments and the list it read
Call(profileId, memberName, guests, isAddingToExisting, checkIns) ==
  [profileId |-> profileId, memberName |-> memberName, guests |-> guests,
   isAddingToExisting |-> isAddingToExisting, checkIns |-> checkIns]

\* lines 85-113: the call reads the ledger and returns at once when a
\* precondition or the cap rejects it; otherwise it suspends in processGuests
StartCall(member, guests, isAddingToExisting) ==
  LET memberName == IF isAddingToExisting
                      THEN getMemberName(member.profile_id, member_data)
                      ELSE DisplayName(member)
      out == handleGuestCheckIn(member.profile_id, memberName, guests,
                                isAddingToExisting, todays_checkins,
                                todays_alerts, member_data, now)
  IN  /\ hasDownloadedData
      /\ Len(inflight) < MaxInflight
      /\ Len(GuestsOf(getTodaysCheckins(todays_checkins), member.profile_id))
           + Len(guests) <= MaxProposalLen
      /\ IF out.ret.success
           THEN /\ inflight' = Append(inflight,
                                      Call(member.profile_id, memberName, guests,
                                           isAddingToExisting,
                                           getTodaysCheckins(todays_checkins)))
                /\ UNCHANGED result
           ELSE /\ result' = Result(IF isAddingToExisting THEN "addGuests" ELSE "addCheckIn",
                                    FALSE, out.ret.message.kind, <<>>)
                /\ UNCHANGED inflight
      /\ UNCHANGED <<member_data, last_download_date, todays_checkins, todays_alerts,
                     hasDownloadedData, isDataDownloadedToday, now>>

\* lines 119-162: the suspended call resumes: processGuests on the list it
\* read, then the write of that list with the call's change
FinishCall(i) ==
  LET c == inflight[i]
      out == handleGuestCheckIn(c.profileId, c.memberName, c.guests,
                                c.isAddingToExisting, << c.checkIns >>,
                                todays_alerts, member_data, now)
  IN  /\ Len(getTodaysAlerts(out.alerts)) <= MaxAlerts
      /\ todays_checkins' = out.checkins
      /\ todays_alerts' = out.alerts
      /\ result' = Result(IF c.isAddingToExisting THEN "addGuests" ELSE "addCheckIn",
                          out.ret.success, out.ret.message.kind, <<>>)
      /\ inflight' = SubSeq(inflight, 1, i - 1) \o SubSeq(inflight, i + 1, Len(inflight))
      /\ UNCHANGED <<member_data, last_download_date, hasDownloadedData,
                     isDataDownloadedToday, now>>

TapCheckIn == \E member \in MemberObjs : \E guests \in TapLists(member.profile_id) :
                StartCall(member, guests, FALSE) /\ UNCHANGED <<phase, screen>>

TapAddGuests == \E member \in MemberObjs :
                  StartCall(member, <<Guest(TypedName(member.profile_id))>>, TRUE) /\ UNCHANGED <<phase, screen>>

Resume == \E i \in 1..Len(inflight) : FinishCall(i) /\ UNCHANGED <<phase, screen>>

\* the download on the home screen that precedes the check-ins
DownloadIdle == \E apiData \in Snapshots :
                  /\ inflight = <<>>
                  /\ ~hasDownloadedData
                  /\ HandleDownloadData("ok", apiData)
                  /\ UNCHANGED <<phase, inflight, screen>>

NextInterleaved ==
  \/ TapCheckIn
  \/ TapAddGuests
  \/ Resume
  \/ DownloadIdle

SpecInterleaved == Init /\ [][NextInterleaved]_vars

\* C14 (as claimed): when a check-in service call that overlapped with others
\* writes the ledger, every record that was in the stored ledger is still in
\* it with the guests it had, and the ledger holds at most one record per
\* profile_id.
C14_NoLostWrite ==
  [][ \A i \in 1..Len(inflight) :
        FinishCall(i) =>
          /\ \A c \in 1..Len(Ledger) :
               \E d \in 1..Len(Ledger') :
                 /\ Ledger'[d].profile_id = Ledger[c].profile_id
                 /\ Len(Ledger'[d].guests) >= Len(Ledger[c].guests)
                 /\ SubSeq(Ledger'[d].guests, 1, Len(Ledger[c].guests)) = Ledger[c].guests
          /\ \A c, d \in 1..Len(Ledger') :
               Ledger'[c].profile_id = Ledger'[d].profile_id => c = d
    ]_vars

-----------------------------------------------------------------------------
(* SpecSeason: the two season functions applied to dates.                     *)
(* getSeasonFromDate(date) evaluates new Date(date).getMonth() and             *)
(* .getFullYear().  For a date-only string 'YYYY-MM-DD' (the form the app      *)
(* itself writes with toISOString().split('T')[0]) new Date(date) is midnight  *)
(* UTC of that day, and getMonth / getFullYear read it in the device's zone:   *)
(* on a device whose zone is behind UTC that instant is the evening of the     *)
(* day before.  getCurrentSeason reads new Date() in the device's zone.        *)
(* The definitions above (getSeasonFromDate on a Date) are the case of a       *)
(* device whose zone is not behind UTC.                                        *)

\* the device's zone, as far as it matters to midnight UTC
Zones == {"behindUTC", "notBehindUTC"}

\* the days of a month
DaysIn(year, month) ==
  IF month = 2 THEN (IF year % 4 = 0 /\ (year % 100 # 0 \/ year % 400 = 0) THEN 29 ELSE 28)
  ELSE IF month \in {4, 6, 9, 11} THEN 30 ELSE 31

\* the calendar day before
dayBefore(date) ==
  IF date.day > 1 THEN Date(date.year, date.month, date.day - 1)
  ELSE IF date.month > 1 THEN Date(date.year, date.month - 1, DaysIn(date.year, date.month - 1))
  ELSE Date(date.year - 1, 12, 31)

\* new Date('YYYY-MM-DD') read with getFullYear / getMonth / getDate in the zone
localDate(date, zone) == IF zone = "behindUTC" THEN dayBefore(date) ELSE date

\* Utils.getSeasonFromDate on a date-only string, on a device in that zone
getSeasonFromDateIn(date, zone) == getSeasonFromDate(localDate(date, zone))

\* the dates the functions are applied to: the first and the last day of every
\* month of two years
ProbeDates ==
  { date \in {Date(y, m, d) : y \in {2024, 2025}, m \in 1..12, d \in {1, 28, 29, 30, 31}} :
      date.day = 1 \/ date.day = DaysIn(date.year, date.month) }

InitSeason ==
  /\ member_data = <<>>
  /\ last_download_date = <<>>
  /\ todays_checkins = <<>>
  /\ todays_alerts = <<>>
  /\ hasDownloadedData = FALSE
  /\ isDataDownloadedToday = FALSE
  /\ inflight = <<>>
  /\ screen = "Home"
  /\ phase = 0
  /\ now \in Todays
  /\ \E date \in ProbeDates : \E zone \in Zones :
       result = Result("seasonInput", TRUE, "", << [date |-> date, zone |-> zone] >>)

\* getSeasonFromDate(date) is evaluated on the device
ApplyGetSeasonFromDate ==
  /\ result.op = "seasonInput"
  /\ result' = Result("getSeasonFromDate", TRUE, "",
                      << [date |-> result.payload[1].date,
                          zone |-> result.payload[1].zone,
                          tag  |-> getSeasonFromDateIn(result.payload[1].date,
                                                       result.payload[1].zone)] >>)
  /\ UNCHANGED <<member_data, last_download_date, todays_checkins, todays_alerts,
                 hasDownloadedData, isDataDownloadedToday, now, phase, inflight, screen>>

\* getCurrentSeason() is evaluated on the device on that date
ApplyGetCurrentSeason ==
  /\ result.op = "seasonInput"
  /\ result' = Result("getCurrentSeason", TRUE, "",
                      << [date |-> result.payload[1].date,
                          zone |-> result.payload[1].zone,
                          tag  |-> getCurrentSeason(result.payload[1].date)] >>)
  /\ UNCHANGED <<member_data, last_download_date, todays_checkins, todays_alerts,
                 hasDownloadedData, isDataDownloadedToday, now, phase, inflight, screen>>

NextSeason ==
  \/ ApplyGetSeasonFromDate
  \/ ApplyGetCurrentSeason

SpecSeason == InitSeason /\ [][NextSeason]_vars

\* C15 (as claimed): getSeasonFromDate applied to a date gives 'S' + year when
\* the date's month is in the warm range (June to September, so on 1 June and
\* on 30 September) and 'W' + the same year otherwise (so on 31 May and on
\* 1 October), and it is the tag getCurrentSeason gives on that date.
C15_SeasonBoundary ==
  result.op = "getSeasonFromDate" =>
    /\ result.payload[1].tag =
         (IF result.payload[1].date.month \in 6..9
            THEN <<"S", result.payload[1].date.year>>
            ELSE <<"W", result.payload[1].date.year>>)
    /\ result.payload[1].tag = getCurrentSeason(result.payload[1].date)

-----------------------------------------------------------------------------
(* SpecFaults: check-in service calls during which one AsyncStorage request   *)
(* fails.                                                                     *)
(*   ledgerWrite  setItem(TODAYS_CHECKINS_KEY) rejects (lines 137, 154): the  *)
(*                catch block of handleGuestCheckIn returns the failure; the  *)
(*                alerts processGuests wrote before stay written              *)
(*   alertWrite   setItem(TODAYS_ALERTS_KEY) rejects inside createAlert, which *)
(*                rethrows; the error reaches the same catch block before     *)
(*                the ledger write                                            *)
(*   ledgerRead   getItem(TODAYS_CHECKINS_KEY) rejects or JSON.parse throws:  *)
(*                getTodaysCheckins returns [] and the call goes on with an   *)
(*                empty list, which it writes back with its change            *)

Faults == {"none", "ledgerWrite", "alertWrite", "ledgerRead"}

\* the message of the catch block of handleGuestCheckIn
FailedMsg == Msg("Failed to process check-in data.", <<>>, 0, 0)

\* a variant of the faulty call whose failed ledger write goes unnoticed
handleGuestCheckInFaulty_swallow(profileId, memberName, guests, isAddingToExisting, checkinsItem, alertsItem, memberItem, today, fault) ==
  LET out == handleGuestCheckIn(profileId, memberName, guests, isAddingToExisting,
                                checkinsItem, alertsItem, memberItem, today)
  IN  IF fault = "ledgerWrite" /\ out.ret.success
        THEN Outcome(checkinsItem, out.alerts, TRUE, out.ret.message)
        ELSE out

\* handleGuestCheckIn with that storage request failing
handleGuestCheckInFaulty(profileId, memberName, guests, isAddingToExisting, checkinsItem, alertsItem, memberItem, today, fault) ==
  LET out == handleGuestCheckIn(profileId, memberName, guests, isAddingToExisting,
                                IF fault = "ledgerRead" THEN <<>> ELSE checkinsItem,
                                alertsItem, memberItem, today)
  IN  CASE fault = "ledgerWrite" /\ out.ret.success ->
             Outcome(checkinsItem, out.alerts, FALSE, FailedMsg)
        [] fault = "alertWrite" /\ out.alerts # alertsItem ->
             Outcome(checkinsItem, alertsItem, FALSE, FailedMsg)
        [] fault = "ledgerRead" /\ ~out.ret.success ->
             Outcome(checkinsItem, alertsItem, FALSE, out.ret.message)
        [] OTHER -> out

\* the storage and the reported result after a call with that request failing;
\* the result keeps the call's arguments
ServedFaulty(op, profileId, guests, fault, out) ==
  /\ Len(getTodaysAlerts(out.alerts)) <= MaxAlerts
  /\ todays_checkins' = out.checkins
  /\ todays_alerts' = out.alerts
  /\ result' = Result(op, out.ret.success, out.ret.message.kind,
                      << [profileId |-> profileId, guests |-> guests, fault |-> fault] >>)
  /\ UNCHANGED <<member_data, last_download_date, hasDownloadedData,
                 isDataDownloadedToday, now>>

AddCheckInFaulty(member, guests, fault) ==
  ServedFaulty("addCheckIn", member.profile_id, guests, fault,
               handleGuestCheckInFaulty(member.profile_id, DisplayName(member), guests, FALSE, todays_checkins, todays_alerts, member_data, now, fault))

AddGuestsFaulty(profileId, guests, fault) ==
  ServedFaulty("addGuests", profileId, guests, fault,
               handleGuestCheckInFaulty(profileId, getMemberName(profileId, member_data), guests, TRUE, todays_checkins, todays_alerts, member_data, now, fault))

\* the guest lists submitted in SpecFaults: none, the typed guest, and the typed
\* guest after a name field left blank
FaultLists(profileId) ==
  TapLists(profileId) \cup {<<Guest(Str_Blank), Guest(TypedName(profileId))>>}

CheckInFaulty == \E member \in MemberObjs : \E guests \in FaultLists(member.profile_id) : \E fault \in Faults :
                   AddCheckInFaulty(member, guests, fault) /\ UNCHANGED <<phase, inflight, screen>>

MoreGuestsFaulty == \E profileId \in ProfileIds : \E guests \in FaultLists(profileId) \ {<<>>} : \E fault \in Faults :
                      AddGuestsFaulty(profileId, guests, fault) /\ UNCHANGED <<phase, inflight, screen>>

NextFaults ==
  \/ CheckInFaulty
  \/ MoreGuestsFaulty
  \/ Download
  \/ Upload

SpecFaults == Init /\ [][NextFaults]_vars

\* C16: in every step of a check-in or add-guests call, a call whose ledger
\* write failed returns success false and leaves the stored ledger as it was;
\* and a call that returns success true, whatever request failed in it, leaves
\* the member's record in the stored ledger with the proposed named guests as
\* the last guests of the record.
C16_WritesNeverPretend ==
  [][ result'.op \in {"addCheckIn", "addGuests"} =>
        LET call == result'.payload[1]
            named == filterNamed(call.guests)
            stored == GuestsOf(Ledger', call.profileId)
        IN  /\ call.fault = "ledgerWrite" =>
                 /\ ~result'.success
                 /\ todays_checkins' = todays_checkins
            /\ result'.success =>
                 /\ RecordsOf(Ledger', call.profileId) # {}
                 /\ Len(stored) >= Len(named)
                 /\ SubSeq(stored, Len(stored) - Len(named) + 1, Len(stored)) = named
    ]_vars

\* C16 witness: an add-guests call for a member with a record has just failed
\* in its ledger write, after the alert for its guest was written.
C16_Witness ==
  /\ result.op = "addGuests"
  /\ ~result.success
  /\ result.kind = "Failed to process check-in data."
  /\ result.payload[1].fault = "ledgerWrite"
  /\ HasRecord(result.payload[1].profileId)
  /\ AlertLog # <<>>

-----------------------------------------------------------------------------
(* SpecFreshness: the home screen over several days. The device clock moves   *)
(* on, the app is relaunched (checkLocalData runs on mount), data is          *)
(* downloaded, and the check-in screen is reached only through                *)
(* handleCheckInScreen. The stored timestamp is an ISO instant; both it and   *)
(* the clock are read with the local getters, so last_download_date holds the *)
(* local calendar date of the download.                                       *)

\* the days the device clock moves to: the next day, and the same day and
\* month of the next year
ClockDays == {Date(2025, 7, 5), Date(2026, 7, 4)}

\* one date is earlier than the other
DateLess(d, e) ==
  \/ d.year < e.year
  \/ d.year = e.year /\ d.month < e.month
  \/ d.year = e.year /\ d.month = e.month /\ d.day < e.day

\* a variant of the check that compares month and day only
wasDataDownloadedToday_ignoreYear(lastDownloadItem, today) ==
  IF lastDownloadItem = <<>> THEN FALSE
  ELSE /\ lastDownloadItem[1].month = today.month
       /\ lastDownloadItem[1].day = today.day

\* CheckInStorageService.wasDataDownloadedToday on the stored item and the clock
wasDataDownloadedToday(lastDownloadItem, today) ==
  IF lastDownloadItem = <<>> THEN FALSE
  ELSE /\ lastDownloadItem[1].year = today.year
       /\ lastDownloadItem[1].month = today.month
       /\ lastDownloadItem[1].day = today.day

\* HomeScreen.checkLocalData, run when the screen mounts
CheckLocalData ==
  /\ hasDownloadedData' = (member_data # <<>>)
  /\ isDataDownloadedToday' = wasDataDownloadedToday(last_download_date, now)
  /\ screen' = "Home"
  /\ result' = Result("checkLocalData", TRUE, "", <<>>)
  /\ UNCHANGED <<member_data, last_download_date, todays_checkins, todays_alerts, now, phase, inflight>>

\* HomeScreen.handleCheckInScreen
HandleCheckInScreen ==
  /\ screen = "Home"
  /\ IF ~hasDownloadedData
       THEN /\ result' = Result("openCheckIn", FALSE, "No Data Available", <<>>)
            /\ UNCHANGED screen
     ELSE IF ~isDataDownloadedToday
       THEN /\ result' = Result("openCheckIn", FALSE, "Outdated Data", <<>>)
            /\ UNCHANGED screen
     ELSE /\ result' = Result("openCheckIn", TRUE, "", <<>>)
          /\ screen' = "CheckInScreen"
  /\ UNCHANGED <<member_data, last_download_date, todays_checkins, todays_alerts,
                 hasDownloadedData, isDataDownloadedToday, now, phase, inflight>>

\* leaving the check-in screen
GoBack ==
  /\ screen = "CheckInScreen"
  /\ screen' = "Home"
  /\ UNCHANGED <<member_data, last_download_date, todays_checkins, todays_alerts,
                 hasDownloadedData, isDataDownloadedToday, now, result, phase, inflight>>

\* the device clock reaches a later day
AdvanceClock ==
  /\ \E day \in ClockDays : DateLess(now, day) /\ now' = day
  /\ UNCHANGED <<member_data, last_download_date, todays_checkins, todays_alerts,
                 hasDownloadedData, isDataDownloadedToday, result, phase, inflight, screen>>

DownloadHome == \E apiData \in Snapshots :
                  /\ screen = "Home"
                  /\ HandleDownloadData("ok", apiData)
                  /\ UNCHANGED <<phase, inflight, screen>>

GateCheckIn == \E member \in MemberObjs :
                 /\ screen = "CheckInScreen"
                 /\ AddCheckIn(member, <<>>)
                 /\ UNCHANGED <<phase, inflight, screen>>

GateMoreGuests == \E profileId \in ProfileIds :
                    /\ screen = "CheckInScreen"
                    /\ AddGuests(profileId, <<Guest(TypedName(profileId))>>)
                    /\ UNCHANGED <<phase, inflight, screen>>

NextFreshness ==
  \/ CheckLocalData
  \/ HandleCheckInScreen
  \/ GoBack
  \/ AdvanceClock
  \/ DownloadHome
  \/ GateCheckIn
  \/ GateMoreGuests

SpecFreshness == Init /\ [][NextFreshness]_vars

\* C17: in every step, wasDataDownloadedToday on the stored item and the clock
\* is true exactly when a timestamp is stored and its year, month and day are
\* the clock's; the check-in screen is entered only with member data in
\* storage and both home-screen flags set; the freshness flag turns true only
\* in a step after which the check is true; and a check-in or add-guests call
\* neither reads nor changes the timestamp and the flags.
C17_FreshnessGate ==
  [][ /\ wasDataDownloadedToday(last_download_date, now)
           = (last_download_date # <<>> /\ last_download_date[1] = now)
      /\ (screen = "Home" /\ screen' = "CheckInScreen") =>
           /\ member_data # <<>>
           /\ hasDownloadedData
           /\ isDataDownloadedToday
      /\ (~isDataDownloadedToday /\ isDataDownloadedToday') =>
           wasDataDownloadedToday(last_download_date', now')
      /\ result'.op \in {"addCheckIn", "addGuests"} =>
           UNCHANGED <<last_download_date, hasDownloadedData, isDataDownloadedToday>>
    ]_vars

\* C17 witness: on the check-in screen, a check-in has just succeeded although
\* the stored timestamp is no longer today's: same day and month, a year on.
C17_Witness ==
  /\ screen = "CheckInScreen"
  /\ result.op = "addCheckIn"
  /\ result.success
  /\ isDataDownloadedToday
  /\ last_download_date # <<>>
  /\ last_download_date[1].year # now.year
  /\ last_download_date[1].month = now.month
  /\ last_download_date[1].day = now.day
  /\ ~wasDataDownloadedToday(last_download_date, now)

-----------------------------------------------------------------------------
(* Ledger contents *)

\* C18: in every reachable state, every record of the ledger holds at most
\* five guests.
C18_AtMostFiveGuests ==
  \A i \in 1..Len(Ledger) : Len(Ledger[i].guests) <= 5

\* C18 witness: an add-guests call has just succeeded and the record is full;
\* every further guest list with a named guest would be refused for the cap.
C18_Witness ==
  /\ result.op = "addGuests"
  /\ result.success
  /\ \E i \in 1..Len(Ledger) :
       /\ Len(Ledger[i].guests) = 5
       /\ ~validateGuestCount(Len(Ledger[i].guests), 1).valid

\* C19: in every reachable state, with or without a failing storage request,
\* every guest stored in a ledger record has a name that is not empty after
\* trimming.
C19_NoBlankGuestStored ==
  \A i \in 1..Len(Ledger) : \A k \in 1..Len(Ledger[i].guests) :
    trim(Ledger[i].guests[k].name) # <<>>

\* C19 witness: a call whose proposed list held a blank name has just
\* succeeded, and the member's record holds the named guest of that list only.
C19_Witness ==
  /\ result.op \in {"addCheckIn", "addGuests"}
  /\ result.success
  /\ \E k \in 1..Len(result.payload[1].guests) :
       trim(result.payload[1].guests[k].name) = <<>>
  /\ filterNamed(result.payload[1].guests) # <<>>
  /\ GuestsOf(Ledger, result.payload[1].profileId) = filterNamed(result.payload[1].guests)

\* the lower-cased names of the guests on the member's record, as
\* handleGuestCheckIn passes them to processGuests
ExistingGuestNames(profileId) ==
  [k \in 1..Len(GuestsOf(Ledger, profileId)) |-> toLowerCase(GuestsOf(Ledger, profileId)[k].name)]

\* the verdict of validateGuestVisitLimit on a name, in the current state
VerdictOn(profileId, guestName) ==
  validateGuestVisitLimit(Guest(guestName), profileId, Ledger, ExistingGuestNames(profileId), todays_alerts, member_data, now)

\* C20: in every reachable state, for every member and every typed name,
\* validateGuestVisitLimit returns false and leaves the alert item as it is when
\* the name is blank after trimming or equals, case aside, a name on the
\* member's record; otherwise, when the visit count is over 3, it returns true
\* and the alert log is the old log followed by one GuestLimit alert with the
\* member id, the name and the message for visit count+1; and when the count
\* is 3 or less it returns false and leaves the alert item as it is.
C20_VisitLimitVerdict ==
  \A profileId \in ProfileIds : \A guestName \in Spellings \cup {Str_Blank, <<>>} :
    LET count == getGuestVisitCount(guestName, Ledger, profileId, member_data, now)
        verdict == VerdictOn(profileId, guestName)
        log == getTodaysAlerts(verdict.alerts)
    IN  IF \/ trim(guestName) = <<>>
           \/ \E k \in 1..Len(ExistingGuestNames(profileId)) :
                ExistingGuestNames(profileId)[k] = toLowerCase(guestName)
          THEN ~verdict.over /\ verdict.alerts = todays_alerts
        ELSE IF count > 3
          THEN /\ verdict.over
               /\ Len(log) = Len(AlertLog) + 1
               /\ SubSeq(log, 1, Len(AlertLog)) = AlertLog
               /\ log[Len(log)].type = "GuestLimit"
               /\ log[Len(log)].profile_id = profileId
               /\ log[Len(log)].guest_name = guestName
               /\ log[Len(log)].alert_message = VisitMessage(count + 1)
        ELSE ~verdict.over /\ verdict.alerts = todays_alerts

\* C20 witness: a state in which the three cases lie side by side: member 1's
\* guest Sam has a count over 3 and is flagged with the message for visit 5,
\* member 2's guest sam is on member 2's record and is not flagged, and a
\* blank name is not flagged.
C20_Witness ==
  /\ getGuestVisitCount(Str_Sam, Ledger, 1, member_data, now) = 4
  /\ ~includes(ExistingGuestNames(1), Str_sam)
  /\ VerdictOn(1, Str_Sam).over
  /\ includes(ExistingGuestNames(2), Str_sam)
  /\ ~VerdictOn(2, Str_SAM).over
  /\ ~VerdictOn(1, Str_Blank).over
  /\ \E a \in 1..Len(AlertLog) : AlertLog[a].type = "GuestLimit"

-----------------------------------------------------------------------------
(* processGuests and the guests it hands to the ledger *)

RECURSIVE IsSubList(_, _)
\* the first list is the second with some entries left out, order kept
IsSubList(s, t) ==
  IF s = <<>> THEN TRUE
  ELSE IF t = <<>> THEN FALSE
  ELSE IF Head(s) = Head(t) THEN IsSubList(Tail(s), Tail(t))
  ELSE IsSubList(s, Tail(t))

\* what processGuests returns for a proposed list, in the current state
ProcessedOn(profileId, guests) ==
  processGuests(guests, profileId, Ledger, ExistingGuestNames(profileId), todays_alerts, member_data, now)

\* C21: in every reachable state, for every member and every proposed guest
\* list, processGuests returns as processedGuests the proposed list without
\* its blank-named entries, in the order given, and as guestsOverLimit a
\* sub-list of processedGuests.
C21_ProcessedIsFiltered ==
  \A profileId \in ProfileIds : \A guests \in GuestLists(profileId) :
    /\ ProcessedOn(profileId, guests).processedGuests
         = SelectSeq(guests, LAMBDA g : ~IsBlank(g.name))
    /\ IsSubList(ProcessedOn(profileId, guests).guestsOverLimit,
                 ProcessedOn(profileId, guests).processedGuests)

\* C21 witness: for member 2, the list of a blank name followed by sam gives
\* sam as processedGuests and flags sam; and member 1's guest Sam was flagged
\* and is on member 1's record.
C21_Witness ==
  /\ ProcessedOn(2, <<Guest(Str_Blank), Guest(Str_sam)>>).processedGuests = <<Guest(Str_sam)>>
  /\ ProcessedOn(2, <<Guest(Str_Blank), Guest(Str_sam)>>).guestsOverLimit = <<Guest(Str_sam)>>
  /\ GuestLimitAlerts(AlertLog, 1, Str_Sam) # {}
  /\ includes(ExistingGuestNames(1), Str_sam)

-----------------------------------------------------------------------------
(* SpecAppend: check-ins and guest additions over several days, without a     *)
(* download in between: the app stays open, the device clock moves on, and    *)
(* guests are added to records written on an earlier day. The result keeps    *)
(* the call's arguments. The record of the model carries the check-in's clock *)
(* reading in check_in_date; the source splits the same reading into          *)
(* check_in_date and check_in_time (lines 128-131).                           *)

\* the guest lists added to a record: two spellings of the guest, and the two
\* in the other order with a name field left blank in between
AppendLists(profileId) ==
  { <<Guest(Str_SAM), Guest(TypedName(profileId))>>,
    <<Guest(TypedName(profileId)), Guest(Str_Blank), Guest(Str_SAM)>> }

AppendCheckIn == \E member \in MemberObjs : \E guests \in TapLists(member.profile_id) :
                   AddCheckInFaulty(member, guests, "none") /\ UNCHANGED <<phase, inflight, screen>>

AppendGuests == \E profileId \in ProfileIds : \E guests \in AppendLists(profileId) :
                  AddGuestsFaulty(profileId, guests, "none") /\ UNCHANGED <<phase, inflight, screen>>

\* the device clock passes midnight
Midnight == AdvanceClock /\ now'.year = now.year

NextAppend ==
  \/ DownloadIdle
  \/ Midnight
  \/ AppendCheckIn
  \/ AppendGuests

SpecAppend == Init /\ [][NextAppend]_vars

\* C22: in every step of a successful add-guests call, the ledger keeps its
\* length, the member's record keeps its position and every field other than
\* its guests, its guests are the guests it had followed by the named guests of
\* the proposed list in the order given, and every other record is unchanged.
C22_AppendInPlace ==
  [][ (result'.op = "addGuests" /\ result'.success /\ AppendGuests) =>
        LET call == result'.payload[1]
            i == findIndex(Ledger, call.profileId)
        IN  /\ i # 0
            /\ Len(Ledger') = Len(Ledger)
            /\ Ledger'[i].guests
                 = Ledger[i].guests \o SelectSeq(call.guests, LAMBDA g : ~IsBlank(g.name))
            /\ Ledger'[i].profile_id = Ledger[i].profile_id
            /\ Ledger'[i].check_in_date = Ledger[i].check_in_date
            /\ [Ledger'[i] EXCEPT !.guests = Ledger[i].guests] = Ledger[i]
            /\ \A j \in 1..Len(Ledger) : j # i => Ledger'[j] = Ledger[j]
    ]_vars

\* C22 witness: a list of two spellings with a blank field in between has just
\* been added, on a later day, to member 1's record, which stands behind
\* member 2's record and had a guest before.
C22_Witness ==
  /\ result.op = "addGuests"
  /\ result.success
  /\ result.payload[1].profileId = 1
  /\ Len(result.payload[1].guests) = 3
  /\ Len(Ledger) = 2
  /\ Ledger[2].profile_id = 1
  /\ Ledger[2].check_in_date # now
  /\ Ledger[2].guests = <<Guest(Str_Sam), Guest(Str_Sam), Guest(Str_SAM)>>
  /\ Ledger[1].guests # <<>>

-----------------------------------------------------------------------------
(* Alerts written by one call *)

\* the alerts a step appended to the alert log
NewAlerts == SubSeq(AlertLog', Len(AlertLog) + 1, Len(AlertLog'))

\* C23: in every step of an add-guests call, no alert the step writes names a
\* guest who, case aside, was on the member's record before the call.
C23_RecordedGuestNotReflagged ==
  [][ (result'.op = "addGuests" /\ AppendGuests) =>
        /\ Len(AlertLog') >= Len(AlertLog)
        /\ \A a \in 1..Len(NewAlerts) :
             ~includes(ExistingGuestNames(result'.payload[1].profileId),
                       toLowerCase(NewAlerts[a].guest_name))
    ]_vars

\* C23 witness: member 1's record held Sam, whose count with today's visit is
\* over 3; SAM and Sam have just been added to it and the alert log is empty.
C23_Witness ==
  /\ result.op = "addGuests"
  /\ result.success
  /\ result.payload[1].profileId = 1
  /\ result.payload[1].guests = <<Guest(Str_SAM), Guest(Str_Sam)>>
  /\ GuestsOf(Ledger, 1) = <<Guest(Str_Sam), Guest(Str_SAM), Guest(Str_Sam)>>
  /\ getGuestVisitCount(Str_SAM, Ledger, 1, member_data, now) > 3
  /\ AlertLog = <<>>

\* C24 (as claimed): in every step of a check-in or add-guests call, the
\* alerts the step writes hold at most one GuestLimit alert per member and
\* guest, letter case aside.
C24_OneAlertPerGuestPerSubmission ==
  [][ result'.op \in {"addCheckIn", "addGuests"} =>
        \A a, b \in 1..Len(NewAlerts) :
          ( /\ NewAlerts[a].type = "GuestLimit"
            /\ NewAlerts[b].type = "GuestLimit"
            /\ NewAlerts[a].profile_id = NewAlerts[b].profile_id
            /\ toLowerCase(NewAlerts[a].guest_name) = toLowerCase(NewAlerts[b].guest_name) )
          => a = b
    ]_vars

-----------------------------------------------------------------------------
(* Name matching *)

\* Sam typed with a space after the name, and with a space before it
Str_SamSpace == <<"S", "a", "m", " ">>
Str_SpaceSam == <<" ", "S", "a", "m">>

\* the ways the guest's name is typed: three spellings and two paddings
TypedVariants == Spellings \cup {Str_SamSpace, Str_SpaceSam}

\* C25 (as claimed): in every reachable state, for every member, every typed
\* variant of the guest's name (differing in letter case or in surrounding
\* whitespace only) has the visit count of the plain name, and is not flagged
\* when the plain name is on the member's record.
C25_NamesMatchTrimmedCaseless ==
  \A profileId \in ProfileIds : \A guestName \in TypedVariants :
    /\ toLowerCase(trim(guestName)) = Str_sam
    /\ getGuestVisitCount(guestName, Ledger, profileId, member_data, now)
         = getGuestVisitCount(Str_sam, Ledger, profileId, member_data, now)
    /\ includes(ExistingGuestNames(profileId), Str_sam) => ~VerdictOn(profileId, guestName).over

-----------------------------------------------------------------------------
(* Members the directory does not hold *)

RECURSIVE addAll(_, _)
\* Set.add over a list of names, in insertion order; empty names are skipped
addAll(uniqueGuests, names) ==
  IF names = <<>> THEN uniqueGuests
  ELSE addAll(IF Head(names) = <<>> \/ includes(uniqueGuests, Head(names))
                THEN uniqueGuests
                ELSE Append(uniqueGuests, Head(names)),
              Tail(names))

RECURSIVE todaysNames(_, _)
\* the names of the member's guests in the check-ins handed in, in order
todaysNames(todaysCheckIns, profileId) ==
  IF todaysCheckIns = <<>> THEN <<>>
  ELSE (IF Head(todaysCheckIns).profile_id = profileId
          THEN [k \in 1..Len(Head(todaysCheckIns).guests) |-> Head(todaysCheckIns).guests[k].name]
          ELSE <<>>)
       \o todaysNames(Tail(todaysCheckIns), profileId)

\* GuestValidationService.getPreviousGuests
getPreviousGuests(profileId, todaysCheckIns, memberItem) ==
  LET members == getAllMembers(memberItem)
      i == findIndex(members, profileId)
  IN  IF i = 0 THEN <<>>
      ELSE addAll(addAll(<<>>, [k \in 1..Len(members[i].guest_visits) |->
                                  members[i].guest_visits[k].guest_name]),
                  todaysNames(todaysCheckIns, profileId))

\* C26: in every reachable state, for every member the directory does not
\* hold: getGuestVisitCount is 0 for every spelling and getPreviousGuests is
\* the empty list, whatever the ledger holds for the member; no check-in or
\* add-guests call for the member writes an alert; and a check-in of the
\* member succeeds when the member has no record and the proposed list is
\* within the cap.
C26_AbsentMemberCountsZero ==
  \A member \in MemberObjs :
    ~InDirectory(member.profile_id) =>
      /\ \A guestName \in Spellings :
           getGuestVisitCount(guestName, Ledger, member.profile_id, member_data, now) = 0
      /\ getPreviousGuests(member.profile_id, Ledger, member_data) = <<>>
      /\ \A guests \in GuestLists(member.profile_id) :
           /\ addCheckIn(member, guests, todays_checkins, todays_alerts, member_data, now).alerts
                = todays_alerts
           /\ addGuestsToExistingCheckIn(member.profile_id, guests, todays_checkins, todays_alerts, member_data, now).alerts
                = todays_alerts
           /\ (~HasRecord(member.profile_id) /\ NamedCount(guests) <= 5) =>
                addCheckIn(member, guests, todays_checkins, todays_alerts, member_data, now).ret.success

\* C26 witness: a directory without member 2 is stored, member 2's record
\* holds the guest sam four times or more, the last guests were added by a
\* call that has just succeeded, and no alert names member 2.
C26_Witness ==
  /\ member_data # <<>>
  /\ ~InDirectory(2)
  /\ result.op = "addGuests"
  /\ result.success
  /\ countGuestsNamed(GuestsOf(Ledger, 2), Str_sam) >= 4
  /\ \A a \in 1..Len(AlertLog) : AlertLog[a].profile_id # 2

-----------------------------------------------------------------------------
(* The alert log over the day *)

\* C27: in every step at the gate, either the alert log keeps every alert it
\* had, unchanged and in order, as a prefix, or the step is an upload whose
\* response had status 200 and the log is empty after it; a manual alert step
\* appends exactly one alert, with profile_id 0 and type ManualGateAlert; a
\* check-in or add-guests step appends GuestLimit alerts only; a download and a
\* prepareUploadData leave the log as it was.
C27_AlertLogAppendOnly ==
  [][ /\ \/ /\ Len(AlertLog') >= Len(AlertLog)
            /\ SubSeq(AlertLog', 1, Len(AlertLog)) = AlertLog
         \/ /\ result'.op = "upload"
            /\ hasDownloadedData
            /\ AlertLog' = <<>>
            /\ \E outcome \in {"ok", "okNoStats"} : HandleUploadData(outcome)
      /\ result'.op = "manualAlert" =>
           /\ Len(AlertLog') = Len(AlertLog) + 1
           /\ AlertLog'[Len(AlertLog')].profile_id = 0
           /\ AlertLog'[Len(AlertLog')].type = "ManualGateAlert"
      /\ result'.op \in {"addCheckIn", "addGuests"} =>
           \A a \in 1..Len(NewAlerts) : NewAlerts[a].type = "GuestLimit"
      /\ result'.op \in {"download", "prepareUpload"} => AlertLog' = AlertLog
    ]_vars

\* C27 witness: a manual alert has just been appended behind a GuestLimit
\* alert written by an earlier check-in.
C27_Witness ==
  /\ result.op = "manualAlert"
  /\ Len(AlertLog) = 2
  /\ AlertLog[1].type = "GuestLimit"
  /\ AlertLog[2].type = "ManualGateAlert"
  /\ AlertLog[2].profile_id = 0

\* C28 (as claimed): in every reachable state, also after a call in which a
\* storage request failed and after a download, every GuestLimit alert of the
\* alert log names a member with a record in the ledger and a guest on that
\* record.
C28_AlertHasRecordedGuest ==
  \A a \in 1..Len(AlertLog) :
    AlertLog[a].type = "GuestLimit" =>
      \E k \in 1..Len(GuestsOf(Ledger, AlertLog[a].profile_id)) :
        GuestsOf(Ledger, AlertLog[a].profile_id)[k].name = AlertLog[a].guest_name

-----------------------------------------------------------------------------
(* SpecUploadRace: the upload request in flight. handleUploadData awaits      *)
(* prepareUploadData, then the request, and clears the two items when the     *)
(* response has status 200. While it waits, isLoading disables the buttons of *)
(* the home screen, but a check-in call started on the check-in screen and    *)
(* not yet resumed (completeCheckIn is not awaited, and the screen can be     *)
(* left) writes when it resumes.                                              *)

\* the upload request in flight, with the payload prepareUploadData returned
UploadRequest(uploadData) == [uploadData |-> uploadData]

IsUploadRequest(c) == "uploadData" \in DOMAIN c

\* HomeScreen isLoading while the upload is awaited
isLoading == \E i \in 1..Len(inflight) : IsUploadRequest(inflight[i])

\* handleCheckInScreen, behind the button's disabled={... || isLoading}
RaceOpen == ~isLoading /\ HandleCheckInScreen

RaceTapCheckIn == \E member \in MemberObjs : \E guests \in TapLists(member.profile_id) :
                    /\ screen = "CheckInScreen"
                    /\ StartCall(member, guests, FALSE)
                    /\ UNCHANGED <<phase, screen>>

RaceTapAddGuests == \E member \in MemberObjs :
                      /\ screen = "CheckInScreen"
                      /\ StartCall(member, <<Guest(TypedName(member.profile_id))>>, TRUE)
                      /\ UNCHANGED <<phase, screen>>

\* a suspended check-in call resumes and writes
RaceResume == \E i \in 1..Len(inflight) :
                /\ ~IsUploadRequest(inflight[i])
                /\ FinishCall(i)
                /\ UNCHANGED <<phase, screen>>

\* handleUploadData up to the request: lines 96-109
StartUpload ==
  /\ screen = "Home"
  /\ hasDownloadedData
  /\ ~isLoading
  /\ Len(inflight) < MaxInflight
  /\ inflight' = Append(inflight, UploadRequest(prepareUploadData(DeviceId, todays_checkins, todays_alerts, now)))
  /\ result' = Result("uploading", TRUE, "", <<>>)
  /\ UNCHANGED <<member_data, last_download_date, todays_checkins, todays_alerts,
                 hasDownloadedData, isDataDownloadedToday, now, phase, screen>>

\* handleUploadData from the response on: lines 111-133
FinishUpload == \E i \in 1..Len(inflight) : \E outcome \in UploadOutcomes \ {"offline"} :
                  /\ IsUploadRequest(inflight[i])
                  /\ HandleUploadData(outcome)
                  /\ inflight' = SubSeq(inflight, 1, i - 1) \o SubSeq(inflight, i + 1, Len(inflight))
                  /\ UNCHANGED <<phase, screen>>

NextUploadRace ==
  \/ DownloadIdle
  \/ RaceOpen
  \/ GoBack
  \/ RaceTapCheckIn
  \/ RaceTapAddGuests
  \/ RaceResume
  \/ StartUpload
  \/ FinishUpload

SpecUploadRace == Init /\ [][NextUploadRace]_vars

\* C29 (as claimed): in every step in which the response of an upload empties
\* the ledger and the alert log, every check-in record and every alert that
\* was stored before the step is in the payload that upload sent.
C29_UploadLosesNothing ==
  [][ \A i \in 1..Len(inflight) :
        ( /\ IsUploadRequest(inflight[i])
          /\ result'.op = "upload"
          /\ Ledger' = <<>>
          /\ AlertLog' = <<>> )
        => /\ \A r \in 1..Len(Ledger) : includes(inflight[i].uploadData.checkins, Ledger[r])
           /\ \A a \in 1..Len(AlertLog) : includes(inflight[i].uploadData.alerts, AlertLog[a])
    ]_vars

-----------------------------------------------------------------------------
(* Records kept by a check-in *)

\* C30 (as claimed): in every step of a check-in or add-guests call, also one
\* whose ledger read failed and whose write succeeded, every record that was
\* in the stored ledger before the call is in it after the call, with all the
\* guests it had.
C30_CheckInKeepsRecords ==
  [][ result'.op \in {"addCheckIn", "addGuests"} =>
        \A r \in 1..Len(Ledger) :
          \E q \in 1..Len(Ledger') :
            /\ Ledger'[q].profile_id = Ledger[r].profile_id
            /\ Ledger'[q].check_in_date = Ledger[r].check_in_date
            /\ Len(Ledger'[q].guests) >= Len(Ledger[r].guests)
            /\ SubSeq(Ledger'[q].guests, 1, Len(Ledger[r].guests)) = Ledger[r].guests
    ]_vars

====
